---- MODULE Spec2Model ----
(***************************************************************************)
(* Model of the loop nodes of comfyui-loop-memory-safe (src/nodes.py).     *)
(*                                                                         *)
(* Python dicts (the process-wide _loop_state map, a LOOP_SIGNAL, a        *)
(* persisted record) are TLA+ functions whose DOMAIN is the dict's key     *)
(* set, so "key in dict" and dict.get(key, default) keep their meaning.    *)
(* Each node's execute() is an operator computing its outputs (and, for    *)
(* the nodes that touch _loop_state, the new map); each action is one      *)
(* invocation of a node by the host.  Memory cleanup (_cleanup_memory)     *)
(* acts on the host's memory only and has no effect on any value below.    *)
(***************************************************************************)
EXTENDS Integers, FiniteSets, Sequences, TLC

VARIABLES
    loop_state,   \* _loop_state: dict loop_id -> {current_index, start_index, max_iterations}
    wire,         \* dict evaluation -> the LOOP_SIGNAL last emitted on that evaluation's link
    last,         \* the last node invocation: [node, args, out]
    broken,       \* loop ids purged by LoopBreak and not started again since
    created_end,  \* dict loop_id -> end_index fixed when the present slot was created
    persisted,    \* dict loop_id -> next_index AutoLoopEnd last wrote into the present slot
    run           \* the host's driver of one loop run (SpecRun), Idle otherwise

vars == <<loop_state, wire, last, broken, created_end, persisted, run>>

----------------------------------------------------------------------------
(* Bounds of the model *)

MaxStart == 2       \* start_index ranges over 0..MaxStart
MaxIter == 3        \* max_iterations ranges over 1..MaxIter

LoopIds == {"loop_1"}
StartIndices == 0..MaxStart
Iterations == 1..MaxIter
Evaluation == 1      \* the one evaluation the serial host runs at a time
SerialEvals == {Evaluation}

----------------------------------------------------------------------------
(* Python values *)

None == [none |-> TRUE]
EmptyDict == [k \in {} |-> 0]

\* dict.get(key, default)
Get(d, k, default) == IF k \in DOMAIN d THEN d[k] ELSE default

\* d[k] = v
DictSet(d, k, v) == [x \in (DOMAIN d) \cup {k} |-> IF x = k THEN v ELSE d[x]]

\* del d[k]
DictDel(d, k) == [x \in (DOMAIN d) \ {k} |-> d[x]]

\* max(a, b)
Max(a, b) == IF a >= b THEN a ELSE b

\* a Python float that is the quotient of two ints, kept as the exact ratio
Ratio(n, d) == [num |-> n, den |-> d]
RatioLeq(p, q) == p.num * q.den <= q.num * p.den
RatioIsOne(p) == p.num = p.den

----------------------------------------------------------------------------
(* The persisted map *)

get_loop_state(ls, loop_id) == Get(ls, loop_id, None)

set_loop_state(ls, loop_id, state) == DictSet(ls, loop_id, state)

\* clear_loop_state with the membership test inverted: it never deletes
clear_loop_state_inverted(ls, loop_id) ==
    IF loop_id \notin DOMAIN ls THEN DictDel(ls, loop_id) ELSE ls

\* clear_loop_state taking its "clear everything" branch for a present loop_id
clear_loop_state_all(ls, loop_id) ==
    IF loop_id \in DOMAIN ls THEN EmptyDict ELSE ls

\* only ever called with a loop_id string in this repository, so the
\* "loop_id is None: clear everything" branch is not part of the model
clear_loop_state(ls, loop_id) ==
    IF loop_id \in DOMAIN ls THEN DictDel(ls, loop_id) ELSE ls

----------------------------------------------------------------------------
(* Manual-mode nodes *)

LoopStart_execute(start_index, max_iterations, loop_signal) ==
    LET current_index ==
            IF loop_signal = None
            THEN start_index
            ELSE Get(loop_signal, "current_index", start_index)
        signal == [current_index |-> current_index,
                   start_index |-> start_index,
                   max_iterations |-> max_iterations,
                   is_active |-> current_index < (start_index + max_iterations)]
    IN [current_index |-> current_index,
        start_index |-> start_index,
        max_iterations |-> max_iterations,
        loop_signal |-> signal]

\* LoopEnd with the bound test off by one (<= for <)
LoopEnd_execute_inclusive(loop_signal) ==
    LET current_index == Get(loop_signal, "current_index", 0)
        start_index == Get(loop_signal, "start_index", 0)
        max_iterations == Get(loop_signal, "max_iterations", 1)
        next_index == current_index + 1
        end_index == start_index + max_iterations
        continue_loop == next_index <= end_index
        new_signal == [current_index |-> next_index,
                       start_index |-> start_index,
                       max_iterations |-> max_iterations,
                       is_active |-> continue_loop]
    IN [loop_signal |-> new_signal, continue_loop |-> continue_loop]

LoopEnd_execute(loop_signal) ==
    LET current_index == Get(loop_signal, "current_index", 0)
        start_index == Get(loop_signal, "start_index", 0)
        max_iterations == Get(loop_signal, "max_iterations", 1)
        next_index == current_index + 1
        end_index == start_index + max_iterations
        continue_loop == next_index < end_index
        new_signal == [current_index |-> next_index,
                       start_index |-> start_index,
                       max_iterations |-> max_iterations,
                       is_active |-> continue_loop]
    IN [loop_signal |-> new_signal, continue_loop |-> continue_loop]

\* LoopCondition.execute reading a missing max_iterations as 0
LoopCondition_execute_zero_iterations(loop_signal) ==
    LET current_index == Get(loop_signal, "current_index", 0)
        start_index == Get(loop_signal, "start_index", 0)
        max_iterations == Get(loop_signal, "max_iterations", 0)
        end_index == start_index + max_iterations
        should_continue == current_index < end_index
        remaining == Max(0, end_index - current_index - 1)
    IN [should_continue |-> should_continue,
        current_index |-> current_index,
        remaining |-> remaining]

LoopCondition_execute(loop_signal) ==
    LET current_index == Get(loop_signal, "current_index", 0)
        start_index == Get(loop_signal, "start_index", 0)
        max_iterations == Get(loop_signal, "max_iterations", 1)
        end_index == start_index + max_iterations
        should_continue == current_index < end_index
        remaining == Max(0, end_index - current_index - 1)
    IN [should_continue |-> should_continue,
        current_index |-> current_index,
        remaining |-> remaining]

\* LoopIndex counting the current iteration as still remaining
LoopIndex_execute_late(loop_signal) ==
    LET current_index == Get(loop_signal, "current_index", 0)
        start_index == Get(loop_signal, "start_index", 0)
        max_iterations == Get(loop_signal, "max_iterations", 1)
        iteration == current_index - start_index
        remaining == Max(0, max_iterations - iteration)
        progress == IF max_iterations > 0
                    THEN Ratio(iteration + 1, max_iterations)
                    ELSE Ratio(1, 1)
    IN [current_index |-> current_index,
        iteration |-> iteration,
        total_iterations |-> max_iterations,
        remaining |-> remaining,
        progress |-> progress]

LoopIndex_execute(loop_signal) ==
    LET current_index == Get(loop_signal, "current_index", 0)
        start_index == Get(loop_signal, "start_index", 0)
        max_iterations == Get(loop_signal, "max_iterations", 1)
        iteration == current_index - start_index
        remaining == Max(0, max_iterations - iteration - 1)
        progress == IF max_iterations > 0
                    THEN Ratio(iteration + 1, max_iterations)
                    ELSE Ratio(1, 1)
    IN [current_index |-> current_index,
        iteration |-> iteration,
        total_iterations |-> max_iterations,
        remaining |-> remaining,
        progress |-> progress]

\* IntIterator with a strict upper bound test
IntIterator_execute_strict(start, end, step, current_iteration) ==
    LET value == start + (current_iteration * step)
        has_more == IF step > 0 THEN (value + step) < end ELSE (value + step) >= end
    IN [value |-> value, iteration |-> current_iteration, has_more |-> has_more]

IntIterator_execute(start, end, step, current_iteration) ==
    LET value == start + (current_iteration * step)
        has_more == IF step > 0 THEN (value + step) <= end ELSE (value + step) >= end
    IN [value |-> value, iteration |-> current_iteration, has_more |-> has_more]

----------------------------------------------------------------------------
(* Auto-mode nodes: each returns the new _loop_state and the node's outputs *)

\* AutoLoopStart that honours the reset input only when no slot exists
AutoLoopStart_execute_ignores_reset(ls, loop_id, start_index, max_iterations, reset) ==
    LET state == get_loop_state(ls, loop_id)
        fresh == state = None
        current_index == IF fresh THEN start_index
                         ELSE Get(state, "current_index", start_index)
        ls2 == IF fresh
               THEN set_loop_state(ls, loop_id,
                        [current_index |-> current_index,
                         start_index |-> start_index,
                         max_iterations |-> max_iterations])
               ELSE ls
        iteration == current_index - start_index
        end_index == start_index + max_iterations
        remaining == Max(0, end_index - current_index - 1)
        progress == IF max_iterations > 0
                    THEN Ratio(iteration + 1, max_iterations)
                    ELSE Ratio(1, 1)
        is_last == current_index >= (end_index - 1)
        signal == [loop_id |-> loop_id,
                   current_index |-> current_index,
                   start_index |-> start_index,
                   max_iterations |-> max_iterations,
                   is_active |-> current_index < end_index]
    IN [ls |-> ls2,
        out |-> [current_index |-> current_index,
                 iteration |-> iteration,
                 remaining |-> remaining,
                 progress |-> progress,
                 is_last |-> is_last,
                 loop_signal |-> signal]]

\* AutoLoopStart that writes the slot from its arguments on every invocation
AutoLoopStart_execute_rewrites(ls, loop_id, start_index, max_iterations, reset) ==
    LET state == get_loop_state(ls, loop_id)
        fresh == state = None \/ reset
        current_index == IF fresh THEN start_index
                         ELSE Get(state, "current_index", start_index)
        ls2 == set_loop_state(ls, loop_id,
                        [current_index |-> current_index,
                         start_index |-> start_index,
                         max_iterations |-> max_iterations])
        iteration == current_index - start_index
        end_index == start_index + max_iterations
        remaining == Max(0, end_index - current_index - 1)
        progress == IF max_iterations > 0
                    THEN Ratio(iteration + 1, max_iterations)
                    ELSE Ratio(1, 1)
        is_last == current_index >= (end_index - 1)
        signal == [loop_id |-> loop_id,
                   current_index |-> current_index,
                   start_index |-> start_index,
                   max_iterations |-> max_iterations,
                   is_active |-> current_index < end_index]
    IN [ls |-> ls2,
        out |-> [current_index |-> current_index,
                 iteration |-> iteration,
                 remaining |-> remaining,
                 progress |-> progress,
                 is_last |-> is_last,
                 loop_signal |-> signal]]

\* AutoLoopStart reporting progress from the zero-based iteration
AutoLoopStart_execute_zero_based(ls, loop_id, start_index, max_iterations, reset) ==
    LET state == get_loop_state(ls, loop_id)
        fresh == state = None \/ reset
        current_index == IF fresh THEN start_index
                         ELSE Get(state, "current_index", start_index)
        ls2 == IF fresh
               THEN set_loop_state(ls, loop_id,
                        [current_index |-> current_index,
                         start_index |-> start_index,
                         max_iterations |-> max_iterations])
               ELSE ls
        iteration == current_index - start_index
        end_index == start_index + max_iterations
        remaining == Max(0, end_index - current_index - 1)
        progress == IF max_iterations > 0
                    THEN Ratio(iteration, max_iterations)
                    ELSE Ratio(1, 1)
        is_last == current_index >= (end_index - 1)
        signal == [loop_id |-> loop_id,
                   current_index |-> current_index,
                   start_index |-> start_index,
                   max_iterations |-> max_iterations,
                   is_active |-> current_index < end_index]
    IN [ls |-> ls2,
        out |-> [current_index |-> current_index,
                 iteration |-> iteration,
                 remaining |-> remaining,
                 progress |-> progress,
                 is_last |-> is_last,
                 loop_signal |-> signal]]

\* AutoLoopStart.execute with is_last raised one index late (compared against
\* end_index instead of end_index - 1).
AutoLoopStart_execute_late_last(ls, loop_id, start_index, max_iterations, reset) ==
    LET state == get_loop_state(ls, loop_id)
        fresh == state = None \/ reset
        current_index == IF fresh THEN start_index
                         ELSE Get(state, "current_index", start_index)
        ls2 == IF fresh
               THEN set_loop_state(ls, loop_id,
                        [current_index |-> current_index,
                         start_index |-> start_index,
                         max_iterations |-> max_iterations])
               ELSE ls
        iteration == current_index - start_index
        end_index == start_index + max_iterations
        remaining == Max(0, end_index - current_index - 1)
        progress == IF max_iterations > 0
                    THEN Ratio(iteration + 1, max_iterations)
                    ELSE Ratio(1, 1)
        is_last == current_index >= end_index
        signal == [loop_id |-> loop_id,
                   current_index |-> current_index,
                   start_index |-> start_index,
                   max_iterations |-> max_iterations,
                   is_active |-> current_index < end_index]
    IN [ls |-> ls2,
        out |-> [current_index |-> current_index,
                 iteration |-> iteration,
                 remaining |-> remaining,
                 progress |-> progress,
                 is_last |-> is_last,
                 loop_signal |-> signal]]

AutoLoopStart_execute(ls, loop_id, start_index, max_iterations, reset) ==
    LET state == get_loop_state(ls, loop_id)
        fresh == state = None \/ reset
        current_index == IF fresh THEN start_index
                         ELSE Get(state, "current_index", start_index)
        ls2 == IF fresh
               THEN set_loop_state(ls, loop_id,
                        [current_index |-> current_index,
                         start_index |-> start_index,
                         max_iterations |-> max_iterations])
               ELSE ls
        iteration == current_index - start_index
        end_index == start_index + max_iterations
        remaining == Max(0, end_index - current_index - 1)
        progress == IF max_iterations > 0
                    THEN Ratio(iteration + 1, max_iterations)
                    ELSE Ratio(1, 1)
        is_last == current_index >= (end_index - 1)
        signal == [loop_id |-> loop_id,
                   current_index |-> current_index,
                   start_index |-> start_index,
                   max_iterations |-> max_iterations,
                   is_active |-> current_index < end_index]
    IN [ls |-> ls2,
        out |-> [current_index |-> current_index,
                 iteration |-> iteration,
                 remaining |-> remaining,
                 progress |-> progress,
                 is_last |-> is_last,
                 loop_signal |-> signal]]

\* AutoLoopEnd that never clears the slot of a finished loop
AutoLoopEnd_execute_keeps(ls, loop_signal) ==
    LET loop_id == Get(loop_signal, "loop_id", "default")
        current_index == Get(loop_signal, "current_index", 0)
        start_index == Get(loop_signal, "start_index", 0)
        max_iterations == Get(loop_signal, "max_iterations", 1)
        next_index == current_index + 1
        end_index == start_index + max_iterations
        should_continue == next_index < end_index
        ls2 == set_loop_state(ls, loop_id,
                   [current_index |-> next_index,
                    start_index |-> start_index,
                    max_iterations |-> max_iterations])
        ls3 == ls2
    IN [ls |-> ls3,
        out |-> [should_continue |-> should_continue, next_index |-> next_index]]

\* AutoLoopEnd.execute persisting the index it read instead of next_index
AutoLoopEnd_execute_stale(ls, loop_signal) ==
    LET loop_id == Get(loop_signal, "loop_id", "default")
        current_index == Get(loop_signal, "current_index", 0)
        start_index == Get(loop_signal, "start_index", 0)
        max_iterations == Get(loop_signal, "max_iterations", 1)
        next_index == current_index + 1
        end_index == start_index + max_iterations
        should_continue == next_index < end_index
        ls2 == set_loop_state(ls, loop_id,
                   [current_index |-> current_index,
                    start_index |-> start_index,
                    max_iterations |-> max_iterations])
        ls3 == IF ~should_continue THEN clear_loop_state(ls2, loop_id) ELSE ls2
    IN [ls |-> ls3,
        out |-> [should_continue |-> should_continue, next_index |-> next_index]]

AutoLoopEnd_execute(ls, loop_signal) ==
    LET loop_id == Get(loop_signal, "loop_id", "default")
        current_index == Get(loop_signal, "current_index", 0)
        start_index == Get(loop_signal, "start_index", 0)
        max_iterations == Get(loop_signal, "max_iterations", 1)
        next_index == current_index + 1
        end_index == start_index + max_iterations
        should_continue == next_index < end_index
        ls2 == set_loop_state(ls, loop_id,
                   [current_index |-> next_index,
                    start_index |-> start_index,
                    max_iterations |-> max_iterations])
        ls3 == IF ~should_continue THEN clear_loop_state(ls2, loop_id) ELSE ls2
    IN [ls |-> ls3,
        out |-> [should_continue |-> should_continue, next_index |-> next_index]]

LoopBreak_execute(ls, loop_signal, break_condition) ==
    [ls |-> IF break_condition
            THEN clear_loop_state(ls, Get(loop_signal, "loop_id", "default"))
            ELSE ls,
     out |-> [did_break |-> break_condition]]

LoopReset_execute(ls, loop_id, trigger) ==
    [ls |-> clear_loop_state(ls, loop_id),
     out |-> [passthrough |-> trigger]]

----------------------------------------------------------------------------------------------------------------------------------------
(* Observation of the run: what the claims need remembered *)

Idle == [pc |-> "idle"]

Triggers == {"t1", "t2"}

NoInvocation == [node |-> "none", args |-> EmptyDict, out |-> EmptyDict]

SignalId(loop_signal) == Get(loop_signal, "loop_id", "default")

EndIndex(rec) == Get(rec, "start_index", 0) + Get(rec, "max_iterations", 1)

\* end_index of the slots present after a step: kept for a slot that survived
\* the step, taken from the new record for a slot the step created
TrackCreated(ce, ls_old, ls_new, recreated) ==
    [id \in DOMAIN ls_new |->
        IF id \in DOMAIN ls_old /\ id \in DOMAIN ce /\ id \notin recreated
        THEN ce[id]
        ELSE EndIndex(ls_new[id])]

----------------------------------------------------------------------------
(* One action per node invocation; e is the evaluation whose link is used *)

AutoLoopStart(e, loop_id, start_index, max_iterations, reset) ==
    LET r == AutoLoopStart_execute(loop_state, loop_id, start_index, max_iterations, reset)
        created == reset \/ loop_id \notin DOMAIN loop_state
    IN /\ loop_state' = r.ls
       /\ wire' = DictSet(wire, e, r.out.loop_signal)
       /\ last' = [node |-> "AutoLoopStart",
                   args |-> [loop_id |-> loop_id, start_index |-> start_index,
                             max_iterations |-> max_iterations, reset |-> reset],
                   out |-> r.out]
       /\ broken' = broken \ {loop_id}
       /\ created_end' = TrackCreated(created_end, loop_state, r.ls,
                                      IF created THEN {loop_id} ELSE {})
       /\ persisted' = IF created /\ loop_id \in DOMAIN persisted
                       THEN DictDel(persisted, loop_id)
                       ELSE persisted

AutoLoopEnd(e) ==
    /\ e \in DOMAIN wire
    /\ LET r == AutoLoopEnd_execute(loop_state, wire[e])
           loop_id == SignalId(wire[e])
       IN /\ loop_state' = r.ls
          /\ last' = [node |-> "AutoLoopEnd",
                      args |-> [loop_signal |-> wire[e]],
                      out |-> r.out]
          /\ created_end' = TrackCreated(created_end, loop_state, r.ls, {})
          /\ persisted' = IF loop_id \in DOMAIN r.ls
                          THEN DictSet(persisted, loop_id, r.out.next_index)
                          ELSE [x \in (DOMAIN persisted) \ {loop_id} |-> persisted[x]]
    /\ UNCHANGED <<wire, broken>>

LoopBreak(e, break_condition) ==
    /\ e \in DOMAIN wire
    /\ LET r == LoopBreak_execute(loop_state, wire[e], break_condition)
       IN /\ loop_state' = r.ls
          /\ last' = [node |-> "LoopBreak",
                      args |-> [loop_signal |-> wire[e],
                                break_condition |-> break_condition],
                      out |-> r.out]
          /\ created_end' = TrackCreated(created_end, loop_state, r.ls, {})
          /\ persisted' = [x \in (DOMAIN persisted) \cap (DOMAIN r.ls) |-> persisted[x]]
    /\ broken' = IF break_condition
                 THEN broken \cup {SignalId(wire[e])}
                 ELSE broken
    /\ UNCHANGED wire

LoopReset(loop_id, trigger) ==
    LET r == LoopReset_execute(loop_state, loop_id, trigger)
    IN /\ loop_state' = r.ls
       /\ last' = [node |-> "LoopReset",
                   args |-> [loop_id |-> loop_id, trigger |-> trigger],
                   out |-> r.out]
       /\ created_end' = TrackCreated(created_end, loop_state, r.ls, {})
       /\ persisted' = [x \in (DOMAIN persisted) \cap (DOMAIN r.ls) |-> persisted[x]]
       /\ UNCHANGED <<wire, broken>>

\* with_signal: whether the optional loop_signal input is linked
LoopStart(e, start_index, max_iterations, with_signal) ==
    /\ with_signal => e \in DOMAIN wire
    /\ LET loop_signal == IF with_signal THEN wire[e] ELSE None
           out == LoopStart_execute(start_index, max_iterations, loop_signal)
       IN /\ wire' = DictSet(wire, e, out.loop_signal)
          /\ last' = [node |-> "LoopStart",
                      args |-> [start_index |-> start_index,
                                max_iterations |-> max_iterations,
                                loop_signal |-> loop_signal],
                      out |-> out]
    /\ UNCHANGED <<loop_state, broken, created_end, persisted>>

LoopEnd(e) ==
    /\ e \in DOMAIN wire
    /\ LET out == LoopEnd_execute(wire[e])
       IN /\ wire' = DictSet(wire, e, out.loop_signal)
          /\ last' = [node |-> "LoopEnd",
                      args |-> [loop_signal |-> wire[e]],
                      out |-> out]
    /\ UNCHANGED <<loop_state, broken, created_end, persisted>>

LoopCondition(e) ==
    /\ e \in DOMAIN wire
    /\ last' = [node |-> "LoopCondition",
                args |-> [loop_signal |-> wire[e]],
                out |-> LoopCondition_execute(wire[e])]
    /\ UNCHANGED <<loop_state, wire, broken, created_end, persisted>>

LoopIndex(e) ==
    /\ e \in DOMAIN wire
    /\ last' = [node |-> "LoopIndex",
                args |-> [loop_signal |-> wire[e]],
                out |-> LoopIndex_execute(wire[e])]
    /\ UNCHANGED <<loop_state, wire, broken, created_end, persisted>>

IntIterator(start, end, step, current_iteration) ==
    /\ last' = [node |-> "IntIterator",
                args |-> [start |-> start, end |-> end, step |-> step,
                          current_iteration |-> current_iteration],
                out |-> IntIterator_execute(start, end, step, current_iteration)]
    /\ UNCHANGED <<loop_state, wire, broken, created_end, persisted>>

----------------------------------------------------------------------------
(* Spec: the host invoking the auto-mode nodes in any order; the link of    *)
(* the evaluation carries the signal of the last AutoLoopStart, which       *)
(* AutoLoopEnd and LoopBreak consume when the host schedules them.          *)

InitStore ==
    /\ loop_state = EmptyDict
    /\ wire = EmptyDict
    /\ last = NoInvocation
    /\ broken = {}
    /\ created_end = EmptyDict
    /\ persisted = EmptyDict

Init ==
    /\ InitStore
    /\ run = Idle

Next ==
    \/ \E e \in SerialEvals, id \in LoopIds, s \in StartIndices, m \in Iterations,
          reset \in BOOLEAN : AutoLoopStart(e, id, s, m, reset) /\ UNCHANGED run
    \/ \E e \in SerialEvals : AutoLoopEnd(e) /\ UNCHANGED run
    \/ \E e \in SerialEvals, b \in BOOLEAN : LoopBreak(e, b) /\ UNCHANGED run
    \/ \E id \in LoopIds, t \in Triggers : LoopReset(id, t) /\ UNCHANGED run

Spec == Init /\ [][Next]_vars

----------------------------------------------------------------------------
(* SpecRun: the host driving one loop with fixed start_index and            *)
(* max_iterations, Start then End per evaluation, until End says stop.      *)
(* manual: LoopStart is fed the signal of the previous LoopEnd;             *)
(* auto: AutoLoopStart/AutoLoopEnd on one loop_id (Auto Queue).             *)
(* LoopCondition and LoopIndex may read the Start's signal in between, and  *)
(* in auto mode the user may set the reset input, which starts the run over.*)

RunModes == {"manual", "auto"}
RunId == "loop_1"
RunEval == Evaluation

InitRun ==
    /\ InitStore
    /\ \E md \in RunModes, s \in StartIndices, m \in Iterations :
          run = [pc |-> "start", mode |-> md, start_index |-> s,
                 max_iterations |-> m, ends |-> 0, progress |-> Ratio(0, 1)]

RunStart ==
    /\ run.pc = "start"
    /\ \/ /\ run.mode = "manual"
          /\ LoopStart(RunEval, run.start_index, run.max_iterations, run.ends > 0)
          /\ run' = [run EXCEPT !.pc = "body"]
       \/ /\ run.mode = "auto"
          /\ AutoLoopStart(RunEval, RunId, run.start_index, run.max_iterations, FALSE)
          /\ run' = [run EXCEPT !.pc = "body", !.progress = last'.out.progress]

RunReset ==
    /\ run.pc = "start"
    /\ run.mode = "auto"
    /\ AutoLoopStart(RunEval, RunId, run.start_index, run.max_iterations, TRUE)
    /\ run' = [run EXCEPT !.pc = "body", !.ends = 0, !.progress = last'.out.progress]

RunCondition ==
    /\ run.pc = "body"
    /\ LoopCondition(RunEval)
    /\ UNCHANGED run

RunIndex ==
    /\ run.pc = "body"
    /\ LoopIndex(RunEval)
    /\ run' = [run EXCEPT !.progress = last'.out.progress]

RunEnd ==
    /\ run.pc = "body"
    /\ \/ /\ run.mode = "manual"
          /\ LoopEnd(RunEval)
          /\ run' = [run EXCEPT !.ends = @ + 1,
                        !.pc = IF last'.out.continue_loop THEN "start" ELSE "done"]
       \/ /\ run.mode = "auto"
          /\ AutoLoopEnd(RunEval)
          /\ run' = [run EXCEPT !.ends = @ + 1,
                        !.pc = IF last'.out.should_continue THEN "start" ELSE "done"]

NextRun ==
    \/ RunStart
    \/ RunReset
    \/ RunCondition
    \/ RunIndex
    \/ RunEnd

SpecRun == InitRun /\ [][NextRun]_vars

----------------------------------------------------------------------------
(* SpecIter: the Integer Iterator invoked with fixed start, end and step    *)
(* at increasing values of current_iteration.                               *)

MaxIterStart == 1     \* start ranges over -MaxIterStart..MaxIterStart
MaxIterEnd == 10      \* end ranges over -MaxIterEnd..MaxIterEnd
MaxStep == 2          \* step ranges over 1..MaxStep
MaxIteration == 6     \* current_iteration ranges over 0..MaxIteration

InitIter ==
    /\ InitStore
    /\ \E start \in (-MaxIterStart)..MaxIterStart, end \in (-MaxIterEnd)..MaxIterEnd,
          step \in 1..MaxStep :
          run = [pc |-> "iter", start |-> start, end |-> end, step |-> step]

NextIter ==
    \E k \in 0..MaxIteration :
       /\ run.pc = "iter"
       /\ last.node = "IntIterator" => k > last.args.current_iteration
       /\ IntIterator(run.start, run.end, run.step, k)
       /\ UNCHANGED run

SpecIter == InitIter /\ [][NextIter]_vars

----------------------------------------------------------------------------
(* Claims *)

IsEnd(inv) == inv.node \in {"LoopEnd", "AutoLoopEnd"}
IsStart(inv) == inv.node \in {"LoopStart", "AutoLoopStart"}

\* the continue output of either End node
Continues(inv) ==
    IF inv.node = "LoopEnd" THEN inv.out.continue_loop ELSE inv.out.should_continue

\* the index either End node advances to
NextIndex(inv) ==
    IF inv.node = "LoopEnd" THEN inv.out.loop_signal.current_index ELSE inv.out.next_index

\* C1: in a run with fixed start_index and max_iterations, the k-th End
\* advances current_index from start_index + k - 1 to start_index + k and
\* returns continue == (k < max_iterations): false at exactly the
\* max_iterations-th End, true at every earlier one; every Start of the run
\* yields start_index + (number of Ends so far).
C1_FinalAdvanceStops ==
    /\ run.ends <= run.max_iterations
    /\ (run.pc = "done") <=> (run.ends = run.max_iterations)
    /\ IsEnd(last) =>
          /\ run.ends >= 1
          /\ Continues(last) = (run.ends < run.max_iterations)
          /\ last.args.loop_signal.current_index = run.start_index + run.ends - 1
          /\ NextIndex(last) = run.start_index + run.ends
    /\ IsStart(last) => last.out.current_index = run.start_index + run.ends

C1_Witness ==
    /\ run.pc = "done"
    /\ run.mode = "auto"
    /\ run.start_index = 1
    /\ run.max_iterations = 3
    /\ last.node = "AutoLoopEnd"
    /\ last.out.next_index = 4

\* the record AutoLoopStart creates from its arguments
FreshRecord(args) ==
    [current_index |-> args.start_index,
     start_index |-> args.start_index,
     max_iterations |-> args.max_iterations]

\* C2: a Start with no prior state (LoopStart without loop_signal;
\* AutoLoopStart on an absent slot or with reset) yields current_index ==
\* start_index and an active signal, and in auto mode leaves the slot holding
\* {current_index = start_index, start_index, max_iterations}.
C2_FreshStartAtStartIndex ==
    [][/\ (last'.node = "LoopStart" /\ last'.args.loop_signal = None) =>
             /\ last'.out.current_index = last'.args.start_index
             /\ last'.out.loop_signal.current_index = last'.args.start_index
             /\ last'.out.loop_signal.is_active = TRUE
       /\ (/\ last'.node = "AutoLoopStart"
           /\ (last'.args.reset \/ last'.args.loop_id \notin DOMAIN loop_state)) =>
             /\ last'.out.current_index = last'.args.start_index
             /\ last'.out.loop_signal.current_index = last'.args.start_index
             /\ last'.out.loop_signal.is_active = TRUE
             /\ last'.args.loop_id \in DOMAIN loop_state'
             /\ loop_state'[last'.args.loop_id] = FreshRecord(last'.args)
      ]_vars

C2_Witness ==
    /\ last.node = "AutoLoopStart"
    /\ last.args.reset
    /\ last.args.start_index = 1
    /\ last.args.max_iterations = 3
    /\ last.out.current_index = 1
    /\ loop_state[RunId] = [current_index |-> 1, start_index |-> 1, max_iterations |-> 3]

\* C3: AutoLoopStart(reset = false) on an existing slot returns the slot's
\* current_index, which is the next_index AutoLoopEnd last persisted into
\* that slot, and leaves the whole map unchanged; a Start that directly
\* follows another Start of the same loop_id returns the same current_index.
C3_StartReadsPersistedIndex ==
    [][(/\ last'.node = "AutoLoopStart"
        /\ ~last'.args.reset
        /\ last'.args.loop_id \in DOMAIN loop_state) =>
          LET id == last'.args.loop_id
          IN /\ last'.out.current_index = loop_state[id].current_index
             /\ id \in DOMAIN persisted => last'.out.current_index = persisted[id]
             /\ loop_state' = loop_state
             /\ (last.node = "AutoLoopStart" /\ last.args.loop_id = id) =>
                   last'.out.current_index = last.out.current_index
      ]_vars

C3_Witness ==
    /\ last.node = "AutoLoopStart"
    /\ ~last.args.reset
    /\ last.args.loop_id \in DOMAIN persisted
    /\ persisted[last.args.loop_id] = 2
    /\ last.out.current_index = 2
    /\ last.args.max_iterations # loop_state[last.args.loop_id].max_iterations

\* C4: after AutoLoopEnd returns should_continue == false the slot of the
\* signal's loop_id is absent; after it returns true the slot is present
\* and its current_index is the returned next_index.
C4_EndPersistsOrPurges ==
    last.node = "AutoLoopEnd" =>
        LET id == SignalId(last.args.loop_signal)
        IN IF last.out.should_continue
           THEN /\ id \in DOMAIN loop_state
                /\ loop_state[id].current_index = last.out.next_index
           ELSE id \notin DOMAIN loop_state

C4_Witness ==
    /\ last.node = "AutoLoopEnd"
    /\ last.args.loop_signal.start_index = 0
    /\ last.args.loop_signal.max_iterations = 3
    /\ last.args.loop_signal.current_index = 2
    /\ ~last.out.should_continue
    /\ last.out.next_index = 3
    /\ "loop_1" \notin DOMAIN loop_state

\* C5: after LoopBreak with break_condition true on a signal of loop_id L,
\* the next AutoLoopStart for L (reset or not) returns its start_index
\* argument and leaves the slot holding the record made from its arguments.
C5_StartAfterBreakIsFresh ==
    [][(last'.node = "AutoLoopStart" /\ last'.args.loop_id \in broken) =>
          /\ last'.out.current_index = last'.args.start_index
          /\ loop_state'[last'.args.loop_id] = FreshRecord(last'.args)
      ]_vars

\* C6: after LoopReset(loop_id) the slot of loop_id is absent, whatever it
\* held before; a second LoopReset changes nothing; the trigger is returned
\* unchanged.
C6_ResetPurges ==
    last.node = "LoopReset" =>
        /\ last.args.loop_id \notin DOMAIN loop_state
        /\ LoopReset_execute(loop_state, last.args.loop_id, last.args.trigger).ls
              = loop_state
        /\ last.out.passthrough = last.args.trigger

C6_Witness ==
    /\ last.node = "LoopReset"
    /\ last.args.trigger = "t2"
    /\ last.out.passthrough = "t2"
    /\ RunEval \in DOMAIN wire
    /\ wire[RunEval].current_index = 2
    /\ loop_state = EmptyDict

\* every signal over a small range of field values, any field missing
SignalFieldValues == (-1)..(MaxStart + MaxIter + 1)
SignalSpace ==
    UNION {[K -> SignalFieldValues] :
              K \in SUBSET {"current_index", "start_index", "max_iterations"}}

\* C7: LoopCondition and LoopIndex return the same remaining for every
\* signal; along a run remaining is 0 exactly at the iteration whose End
\* stops the loop (current_index == start_index + max_iterations - 1) and
\* positive at every earlier iteration.
C7_RemainingAgrees ==
    /\ \A sig \in SignalSpace :
          LoopCondition_execute(sig).remaining = LoopIndex_execute(sig).remaining
    /\ last.node \in {"LoopCondition", "LoopIndex"} =>
          LET sig == last.args.loop_signal
              final == sig.current_index = run.start_index + run.max_iterations - 1
          IN /\ last.out.remaining = LoopCondition_execute(sig).remaining
             /\ last.out.remaining = LoopIndex_execute(sig).remaining
             /\ final <=> (run.ends = run.max_iterations - 1)
             /\ (last.out.remaining = 0) <=> final
             /\ ~final => last.out.remaining > 0

C7_Witness ==
    /\ last.node = "LoopIndex"
    /\ last.out.remaining = 0
    /\ run.max_iterations = 3
    /\ run.ends = 2
    /\ run.mode = "manual"

\* C8: along a run, progress == (iteration + 1) / max_iterations as reported
\* by LoopIndex and AutoLoopStart never decreases from one report to the next
\* (a reset starts a new run) and is 1 exactly at the final iteration
\* (current_index == start_index + max_iterations - 1).
C8_ProgressMonotone ==
    [][last'.node \in {"LoopIndex", "AutoLoopStart"} =>
          LET p == last'.out.progress
              cur == last'.out.current_index
              restarted == last'.node = "AutoLoopStart" /\ last'.args.reset
          IN /\ p.num = cur - run'.start_index + 1
             /\ p.den = run'.max_iterations
             /\ RatioIsOne(p) <=> (cur = run'.start_index + run'.max_iterations - 1)
             /\ RatioLeq(p, Ratio(1, 1))
             /\ ~restarted => RatioLeq(run.progress, p)
      ]_vars

C8_Witness ==
    /\ last.node = "AutoLoopStart"
    /\ ~last.args.reset
    /\ run.ends = 2
    /\ run.max_iterations = 3
    /\ last.out.progress = Ratio(3, 3)

\* C9: IntIterator returns value == start + current_iteration * step and
\* has_more == (value + step <= end); start=0, end=10, step=2 gives
\* (6, true), (8, true), (10, false) at iterations 3, 4, 5; after an
\* invocation with has_more false every later iteration has has_more false.
C9_IteratorValueAndHasMore ==
    [][last'.node = "IntIterator" =>
          LET a == last'.args
              o == last'.out
          IN /\ o.value = a.start + a.current_iteration * a.step
             /\ o.iteration = a.current_iteration
             /\ o.has_more = (o.value + a.step <= a.end)
             /\ (a.start = 0 /\ a.end = 10 /\ a.step = 2) =>
                   /\ a.current_iteration = 3 => (o.value = 6 /\ o.has_more)
                   /\ a.current_iteration = 4 => (o.value = 8 /\ o.has_more)
                   /\ a.current_iteration = 5 => (o.value = 10 /\ ~o.has_more)
             /\ (last.node = "IntIterator" /\ ~last.out.has_more) => ~o.has_more
      ]_vars

C9_Witness ==
    /\ last.node = "IntIterator"
    /\ last.args = [start |-> 0, end |-> 10, step |-> 2, current_iteration |-> 5]
    /\ last.out.value = 10
    /\ ~last.out.has_more

\* C10: while a slot exists, the end_index (start_index + max_iterations) of
\* every signal AutoLoopStart emits for it and of every record AutoLoopEnd
\* writes into it is the end_index fixed when the slot was created.
C10_EndIndexFixedAtCreation ==
    /\ (last.node = "AutoLoopStart" /\ last.args.loop_id \in DOMAIN created_end) =>
          EndIndex(last.out.loop_signal) = created_end[last.args.loop_id]
    /\ (/\ last.node = "AutoLoopEnd"
        /\ SignalId(last.args.loop_signal) \in DOMAIN loop_state) =>
          EndIndex(loop_state[SignalId(last.args.loop_signal)])
             = created_end[SignalId(last.args.loop_signal)]

\* C11: once LoopBreak with break_condition true has purged the slot of a
\* loop id, the slot stays absent until the next AutoLoopStart of that id;
\* no AutoLoopEnd consuming the same signal brings it back.
C11_BrokenStaysPurged ==
    \A id \in broken : id \notin DOMAIN loop_state

\* C12: the current_index a Start node returns is never below the
\* start_index argument it was invoked with.
C12_StartNotBelowStartIndex ==
    IsStart(last) => last.out.current_index >= last.args.start_index

\* C18: every record present in the persisted map has
\* start_index <= current_index < start_index + max_iterations.
C18_StoredRecordsInRange ==
    \A id \in DOMAIN loop_state :
        /\ loop_state[id].start_index <= loop_state[id].current_index
        /\ loop_state[id].current_index
              < loop_state[id].start_index + loop_state[id].max_iterations

\* C19: the is_last an AutoLoopStart call returns is true exactly when the
\* remaining it returns is 0, and exactly when AutoLoopEnd, applied next to
\* the signal of that call, returns should_continue false and leaves the slot
\* of the signal's loop id absent.
C19_IsLastMeansEndStops ==
    [][/\ last'.node = "AutoLoopStart" =>
            (last'.out.is_last <=> last'.out.remaining = 0)
       /\ (last.node = "AutoLoopStart" /\ last'.node = "AutoLoopEnd"
              /\ last'.args.loop_signal = last.out.loop_signal) =>
            /\ last.out.is_last <=> ~last'.out.should_continue
            /\ last.out.is_last =>
                  SignalId(last.out.loop_signal) \notin DOMAIN loop_state'
            /\ ~last.out.is_last =>
                  SignalId(last.out.loop_signal) \in DOMAIN loop_state']_vars

\* An AutoLoopEnd has just consumed the signal of a Start whose arguments
\* disagree with the stored record, and has stopped the loop.
C19_Witness ==
    /\ last.node = "AutoLoopEnd"
    /\ ~last.out.should_continue
    /\ last.args.loop_signal.start_index > 0
    /\ last.args.loop_signal.current_index
          > last.args.loop_signal.start_index
    /\ last.args.loop_signal.loop_id \notin DOMAIN loop_state

----------------------------------------------------------------------------
(* SpecMixed: one host process whose graphs hold a manual loop and auto     *)
(* loops on two loop ids, one of them the id "default" that AutoLoopEnd and *)
(* LoopBreak fall back to for a signal without loop_id.  LOOP_SIGNAL links  *)
(* are type-compatible, so the link carries the signal of whichever Start   *)
(* or LoopEnd ran last.                                                     *)

MaxMixedIter == 2      \* max_iterations ranges over 1..MaxMixedIter
MixedIds == {"loop_1", "default"}
MixedStart == 0
MixedIterations == 1..MaxMixedIter

NextMixed ==
    \/ \E id \in MixedIds, m \in MixedIterations, reset \in BOOLEAN :
          AutoLoopStart(Evaluation, id, MixedStart, m, reset) /\ UNCHANGED run
    \/ AutoLoopEnd(Evaluation) /\ UNCHANGED run
    \/ \E b \in BOOLEAN : LoopBreak(Evaluation, b) /\ UNCHANGED run
    \/ \E id \in MixedIds, t \in Triggers : LoopReset(id, t) /\ UNCHANGED run
    \/ \E m \in MixedIterations :
          LoopStart(Evaluation, MixedStart, m, FALSE) /\ UNCHANGED run
    \/ /\ Evaluation \in DOMAIN wire
       /\ Get(wire[Evaluation], "current_index", 0) < MaxMixedIter
       /\ LoopEnd(Evaluation)
       /\ UNCHANGED run

SpecMixed == Init /\ [][NextMixed]_vars

\* the loop id an invocation operates on: the loop_id argument of
\* AutoLoopStart and LoopReset, the loop id read from the signal by
\* AutoLoopEnd and LoopBreak
OperatedId(inv) ==
    IF inv.node \in {"AutoLoopStart", "LoopReset"}
    THEN inv.args.loop_id
    ELSE SignalId(inv.args.loop_signal)

\* C13: LoopBreak applied to a manual-mode signal (one without loop_id)
\* leaves the whole persisted map unchanged, whatever break_condition is.
C13_ManualBreakLeavesMap ==
    [][(last'.node = "LoopBreak"
           /\ "loop_id" \notin DOMAIN last'.args.loop_signal)
          => loop_state' = loop_state]_vars

\* C14: an AutoLoopStart, AutoLoopEnd, LoopBreak or LoopReset operating on
\* loop id A leaves the slot of every other loop id B as it was: present
\* with the same record, or absent.
C14_OtherSlotsUntouched ==
    [][last'.node \in {"AutoLoopStart", "AutoLoopEnd", "LoopBreak", "LoopReset"}
          => \A B \in MixedIds \ {OperatedId(last')} :
                get_loop_state(loop_state', B) = get_loop_state(loop_state, B)]_vars

\* LoopBreak has just purged the slot of "loop_1" while the slot of
\* "default" is present, left behind by an AutoLoopEnd.
C14_Witness ==
    /\ last.node = "LoopBreak"
    /\ last.args.break_condition
    /\ SignalId(last.args.loop_signal) = "loop_1"
    /\ "loop_1" \in broken
    /\ "loop_1" \notin DOMAIN loop_state
    /\ "default" \in DOMAIN loop_state
    /\ "default" \in DOMAIN persisted

----------------------------------------------------------------------------
(* AutoLoopStart.IS_CHANGED and the Auto Queue host that consults it        *)

\* Python floats as the host compares them: float("nan") is unequal to
\* every value, itself included
NaN == [nan |-> TRUE]
Float(n) == [nan |-> FALSE, value |-> n]
FloatEq(a, b) == ~a.nan /\ ~b.nan /\ a.value = b.value

\* IS_CHANGED returning the stored start_index instead of the cursor
AutoLoopStart_IS_CHANGED_start(ls, loop_id, start_index, max_iterations, reset) ==
    LET state == get_loop_state(ls, loop_id)
    IN IF state = None \/ reset
       THEN NaN
       ELSE Float(Get(state, "start_index", 0))

AutoLoopStart_IS_CHANGED(ls, loop_id, start_index, max_iterations, reset) ==
    LET state == get_loop_state(ls, loop_id)
    IN IF state = None \/ reset
       THEN NaN
       ELSE Float(Get(state, "current_index", 0))

(* SpecQueue: the Auto Queue host evaluating one graph again and again:     *)
(* before each evaluation it asks IS_CHANGED for the change token, then     *)
(* runs AutoLoopStart and AutoLoopEnd.  run.token is the token observed     *)
(* before the evaluation in progress, run.prev the one before the previous  *)
(* evaluation (None before the first).                                      *)

InitQueue ==
    /\ InitStore
    /\ \E s \in StartIndices, m \in Iterations :
          run = [pc |-> "check", start_index |-> s, max_iterations |-> m,
                 reset |-> FALSE, token |-> None, prev |-> None]

QueueCheck ==
    /\ run.pc = "check"
    /\ \E reset \in BOOLEAN :
          LET token == AutoLoopStart_IS_CHANGED(loop_state, RunId, run.start_index,
                                                run.max_iterations, reset)
          IN /\ run' = [run EXCEPT !.pc = "start", !.reset = reset,
                                   !.prev = run.token, !.token = token]
             /\ last' = [node |-> "AutoLoopStart.IS_CHANGED",
                         args |-> [loop_id |-> RunId,
                                   start_index |-> run.start_index,
                                   max_iterations |-> run.max_iterations,
                                   reset |-> reset],
                         out |-> token]
    /\ UNCHANGED <<loop_state, wire, broken, created_end, persisted>>

QueueStart ==
    /\ run.pc = "start"
    /\ AutoLoopStart(RunEval, RunId, run.start_index, run.max_iterations, run.reset)
    /\ run' = [run EXCEPT !.pc = "end"]

QueueEnd ==
    /\ run.pc = "end"
    /\ AutoLoopEnd(RunEval)
    /\ run' = [run EXCEPT !.pc = "check"]

NextQueue ==
    \/ QueueCheck
    \/ QueueStart
    \/ QueueEnd

SpecQueue == InitQueue /\ [][NextQueue]_vars

\* C15: IS_CHANGED returns the never-equal sentinel exactly when the slot of
\* loop_id is absent or reset is true, and the slot's current_index
\* otherwise; and the token observed before an evaluation is unequal to the
\* token observed before the previous evaluation of the same loop id.
C15_TokenTracksCursor ==
    /\ last.node = "AutoLoopStart.IS_CHANGED" =>
          /\ last.out.nan <=>
                (last.args.loop_id \notin DOMAIN loop_state \/ last.args.reset)
          /\ ~last.out.nan =>
                last.out = Float(loop_state[last.args.loop_id].current_index)
    /\ (run.pc \in {"start", "end"} /\ run.prev # None) =>
          ~FloatEq(run.prev, run.token)

\* The host has just read a numeric token before an evaluation whose
\* predecessor also started from a numeric token.
C15_Witness ==
    /\ last.node = "AutoLoopStart.IS_CHANGED"
    /\ run.pc = "start"
    /\ run.prev # None
    /\ ~run.prev.nan
    /\ ~run.token.nan
    /\ run.token.value = run.prev.value + 1

----------------------------------------------------------------------------
(* SpecRace: two evaluations of graphs that use the same loop id, each      *)
(* running its AutoLoopStart and then its AutoLoopEnd on its own link, the  *)
(* host interleaving them in any order (the map has no lock).  run.pc[e] is *)
(* the position of evaluation e, run.ends the number of completed           *)
(* AutoLoopEnd calls, run.owner the evaluation whose Start was the last     *)
(* operation on the loop id (NoEval after an End), run.ender the evaluation *)
(* of the last End.                                                         *)

MaxRaceEnds == 3       \* AutoLoopEnd calls a race runs through
NoEval == Evaluation - 1
RaceEvals == {Evaluation, Evaluation + 1}

InitRace ==
    /\ InitStore
    /\ \E s \in StartIndices, m \in Iterations :
          run = [pc |-> [e \in RaceEvals |-> "start"],
                 start_index |-> s, max_iterations |-> m,
                 ends |-> 0, owner |-> NoEval, ender |-> NoEval]

RaceStart(e) ==
    /\ run.pc[e] = "start"
    /\ AutoLoopStart(e, RunId, run.start_index, run.max_iterations, FALSE)
    /\ run' = [run EXCEPT !.pc[e] = "end", !.owner = e]

RaceEnd(e) ==
    /\ run.pc[e] = "end"
    /\ run.ends < MaxRaceEnds
    /\ AutoLoopEnd(e)
    /\ run' = [run EXCEPT !.pc[e] = "start", !.ends = @ + 1,
                          !.owner = NoEval, !.ender = e]

NextRace ==
    \/ \E e \in RaceEvals : RaceStart(e)
    \/ \E e \in RaceEvals : RaceEnd(e)

SpecRace == InitRace /\ [][NextRace]_vars

\* C16: an AutoLoopEnd that directly follows the AutoLoopStart of its own
\* evaluation, with no other operation on the loop id in between, advances
\* the persisted cursor by exactly one: its next_index is the stored cursor
\* plus one, and that is what the slot holds afterwards unless the loop
\* ended.  (The lost update of the interleaving Start1, Start2, End1, End2
\* is the reachable state C16_Witness.)
C16_SerialEndAdvancesByOne ==
    [][(last'.node = "AutoLoopEnd" /\ last.node = "AutoLoopStart"
           /\ run.owner = run'.ender)
          => /\ RunId \in DOMAIN loop_state
             /\ last'.out.next_index = loop_state[RunId].current_index + 1
             /\ last'.out.should_continue =>
                   /\ RunId \in DOMAIN loop_state'
                   /\ loop_state'[RunId].current_index
                         = loop_state[RunId].current_index + 1
             /\ ~last'.out.should_continue => RunId \notin DOMAIN loop_state']_vars

\* Both evaluations have run their Start and then their End, two
\* AutoLoopEnd calls have completed, and the persisted cursor is only one
\* past start_index: one update is lost.
C16_Witness ==
    /\ run.pc = [e \in RaceEvals |-> "start"]
    /\ run.ends = 2
    /\ last.node = "AutoLoopEnd"
    /\ RunId \in DOMAIN loop_state
    /\ loop_state[RunId].current_index = run.start_index + 1
    /\ DOMAIN wire = RaceEvals

----------------------------------------------------------------------------
(* SpecPartial: the signal-reading nodes fed a LOOP_SIGNAL that another     *)
(* node pack put on the link: any of current_index, start_index and         *)
(* max_iterations may be missing, and it carries no loop_id.                *)

MaxPartial == 1        \* fields of a foreign signal range over 0..MaxPartial
SignalFields == {"current_index", "start_index", "max_iterations"}
PartialSignals ==
    UNION {{sig \in [K -> 0..(MaxPartial + 1)] :
               \A k \in K : IF k = "max_iterations"
                            THEN sig[k] >= 1
                            ELSE sig[k] <= MaxPartial} :
              K \in SUBSET SignalFields}
PartialStarts == 0..MaxPartial
PartialIterations == 1..(MaxPartial + 1)

InitPartial ==
    /\ loop_state = EmptyDict
    /\ \E sig \in PartialSignals : wire = DictSet(EmptyDict, Evaluation, sig)
    /\ last = NoInvocation
    /\ broken = {}
    /\ created_end = EmptyDict
    /\ persisted = EmptyDict
    /\ run = Idle

NextPartial ==
    \/ \E s \in PartialStarts, m \in PartialIterations :
          LoopStart(Evaluation, s, m, TRUE) /\ UNCHANGED run
    \/ /\ Evaluation \in DOMAIN wire
       /\ Get(wire[Evaluation], "current_index", 0) < MaxPartial
       /\ LoopEnd(Evaluation)
       /\ UNCHANGED run
    \/ LoopCondition(Evaluation) /\ UNCHANGED run
    \/ LoopIndex(Evaluation) /\ UNCHANGED run
    \/ AutoLoopEnd(Evaluation) /\ UNCHANGED run

SpecPartial == InitPartial /\ [][NextPartial]_vars

\* the signal or record with every missing field filled in: missing_index
\* for current_index, 0 for start_index, 1 for max_iterations
Completed(sig, missing_index) ==
    [k \in (DOMAIN sig) \cup SignalFields |->
        IF k \in DOMAIN sig THEN sig[k]
        ELSE IF k = "current_index" THEN missing_index
        ELSE IF k = "start_index" THEN 0
        ELSE 1]

\* the invocation of a signal-reading node returned (and AutoLoopEnd
\* stored) what the node returns for the signal completed with
\* missing_index, 0 and 1
ReadsAsCompleted(inv, missing_index) ==
    LET sig == Completed(inv.args.loop_signal, missing_index)
    IN CASE inv.node = "LoopStart" ->
               inv.out = LoopStart_execute(inv.args.start_index,
                                           inv.args.max_iterations, sig)
         [] inv.node = "LoopEnd" -> inv.out = LoopEnd_execute(sig)
         [] inv.node = "LoopCondition" -> inv.out = LoopCondition_execute(sig)
         [] inv.node = "LoopIndex" -> inv.out = LoopIndex_execute(sig)
         [] inv.node = "AutoLoopEnd" ->
               LET r == AutoLoopEnd_execute(EmptyDict, sig)
               IN /\ inv.out = r.out
                  /\ get_loop_state(loop_state, SignalId(sig))
                        = get_loop_state(r.ls, SignalId(sig))

SignalReaders == {"LoopStart", "LoopEnd", "LoopCondition", "LoopIndex", "AutoLoopEnd"}

\* C17 as claimed, for the nodes that read a signal: a missing
\* current_index reads as 0, a missing start_index as 0 and a missing
\* max_iterations as 1, in LoopStart as in the other nodes.
C17_SignalDefaultsZeroZeroOne ==
    (last.node \in SignalReaders /\ last.args.loop_signal # None)
        => ReadsAsCompleted(last, 0)

\* C17 amended: LoopEnd, LoopCondition, LoopIndex, AutoLoopEnd and
\* AutoLoopStart.IS_CHANGED read a missing current_index as 0, LoopStart and
\* AutoLoopStart.execute read it as their start_index argument; every node
\* reads a missing start_index as 0 and a missing max_iterations as 1, and
\* none fails.  The two readers of a persisted record are applied to a
\* record holding the fields of the signal on the link.
C17_DefaultsPerNode ==
    /\ (last.node \in SignalReaders /\ last.args.loop_signal # None)
          => ReadsAsCompleted(last, IF last.node = "LoopStart"
                                    THEN last.args.start_index
                                    ELSE 0)
    /\ \A rec \in {wire[Evaluation]}, s \in PartialStarts, m \in PartialIterations :
          /\ AutoLoopStart_execute(DictSet(EmptyDict, RunId, rec), RunId, s, m, FALSE).out
                = AutoLoopStart_execute(DictSet(EmptyDict, RunId, Completed(rec, s)),
                                        RunId, s, m, FALSE).out
          /\ AutoLoopStart_IS_CHANGED(DictSet(EmptyDict, RunId, rec), RunId, s, m, FALSE)
                = AutoLoopStart_IS_CHANGED(DictSet(EmptyDict, RunId, Completed(rec, 0)),
                                           RunId, s, m, FALSE)

\* LoopStart has just read a signal without current_index and returned its
\* own positive start_index.
C17_Witness ==
    /\ last.node = "LoopStart"
    /\ last.args.loop_signal # None
    /\ "current_index" \notin DOMAIN last.args.loop_signal
    /\ last.args.start_index > 0
    /\ last.out.current_index = last.args.start_index

====
